---- MODULE Spec2Model ----
(***************************************************************************)
(* Model of the xdg-toplevel transaction instructions of                   *)
(* src/view/xdg-shell/xdg-toplevel.hpp: the common base class              *)
(* xdg_instruction_t (locks, acknowledgment matching, kill hook) and its   *)
(* five variants xdg_view_state_t, xdg_view_geometry_t, xdg_view_gravity_t,*)
(* xdg_view_map_t and xdg_view_unmap_t, driven by a scheduler that calls   *)
(* set_pending(), commit(), apply() and finally destroys the instruction.  *)
(***************************************************************************)
EXTENDS Integers, Sequences, FiniteSets, TLC

(***************************************************************************)
(* Bounds of the model.                                                    *)
(***************************************************************************)
\* width of a serial, in bits (uint32_t in the source, scaled down)
SerialBits == 5
\* number of sub-surfaces that may join or leave the view's surface tree
MaxSubsurfaces == 1
\* number of frame callbacks the view may be sent by one instruction
MaxFrames == 2

RECURSIVE Pow2(_)
Pow2(n) == IF n = 0 THEN 1 ELSE 2 * Pow2(n - 1)

\* std::numeric_limits<uint32_t>::max() at the model's width
MAX == Pow2(SerialBits) - 1
Serials == 0 .. MAX

\* surface 0 is the view's main surface, the others are sub-surfaces
MainSurface == 0
Surfaces == 0 .. MaxSubsurfaces

(***************************************************************************)
(* Values of the payloads.                                                 *)
(***************************************************************************)
Kinds == {"state", "geometry", "gravity", "map", "unmap"}

TILED_EDGES_ALL == 15
TiledEdges == {0, TILED_EDGES_ALL}

Gravities == {"top_left", "bottom_right"}

Box(x, y, w, h) == [x |-> x, y |-> y, width |-> w, height |-> h]

InitialGeometry == Box(0, 0, 800, 600)
Targets == {Box(100, 100, 400, 300), Box(0, 0, 800, 600)}
\* window geometries the client may commit (wlr_xdg_surface_get_geometry)
ClientBoxes == {Box(0, 0, 400, 270), Box(10, 10, 400, 300)}

NoFrame == [present |-> FALSE, left |-> 0, right |-> 0, top |-> 0, bottom |-> 0]
TitleBar == [present |-> TRUE, left |-> 0, right |-> 0, top |-> 30, bottom |-> 0]
Frames == {NoFrame, TitleBar}

(***************************************************************************)
(* wf::shrink_by_margins, wf::expand_with_margins, wf::align_with_gravity  *)
(* and wf::dimensions are defined outside xdg-toplevel.hpp.                *)
(***************************************************************************)
shrink_by_margins(g, m) ==
    Box(g.x + m.left, g.y + m.top,
        g.width - m.left - m.right, g.height - m.top - m.bottom)

expand_with_margins(g, m) ==
    Box(g.x - m.left, g.y - m.top,
        g.width + m.left + m.right, g.height + m.top + m.bottom)

align_with_gravity(desired, actual, gravity) ==
    Box(IF gravity = "bottom_right"
        THEN desired.x + desired.width - actual.width ELSE desired.x,
        IF gravity = "bottom_right"
        THEN desired.y + desired.height - actual.height ELSE desired.y,
        actual.width, actual.height)

dimensions(g) == <<g.width, g.height>>

(***************************************************************************)
(* The acknowledgment matcher of check_ready(): the comparison of the      *)
(* toplevel's configure_serial (current) with the serial of the configure  *)
(* the instruction sent (target).  The two subtractions are guarded by the *)
(* comparisons, so neither wraps.                                          *)
(***************************************************************************)
\* a first case that wants the serial strictly past the target
target_achieved_strictly_past(current, target) ==
    (current > target) /\ ((current - target) < MAX \div 2)

target_achieved_nowrap(current, target) ==
    (current >= target) /\ ((current - target) < MAX \div 2)

\* a second case that accepts a difference of exactly MAX / 2
target_achieved_wrapped_at_half(current, target) ==
    (target > current) /\ ((target - current) >= MAX \div 2)

target_achieved_wrapped(current, target) ==
    (target > current) /\ ((target - current) > MAX \div 2)

\* a matcher that forgets that serial 0 means "not acknowledged"
target_achieved_without_sentinel(current, target) ==
    target_achieved_nowrap(current, target)
        \/ target_achieved_wrapped(current, target)

target_achieved(current, target) ==
    /\ (target_achieved_nowrap(current, target)
          \/ target_achieved_wrapped(current, target))
    /\ current > 0

(***************************************************************************)
(* State.                                                                  *)
(***************************************************************************)
VARIABLES
    pc,               \* scheduler position of the instruction
    kind,             \* which of the five instruction classes
    client_initiated, \* xdg_view_geometry_t::client_initiated
    target,           \* xdg_view_geometry_t::target
    desired_edges,    \* xdg_view_state_t::desired_edges
    g,                \* xdg_view_gravity_t::g
    current_gravity,  \* xdg_view_geometry_t::current_gravity
    held_locks,       \* xdg_instruction_t::held_locks: surface -> wlr lock id
    held_soft_locks,  \* xdg_instruction_t::held_soft_locks: surface -> bool
    on_commit,        \* the commit listener: connected?, captured serial
    on_kill,          \* the KILL_TX connection: connected?
    pending,          \* view->view_impl->pending
    state,            \* view->view_impl->state
    geometry,         \* view->geometry
    refs,             \* reference count of the view
    frame,            \* view->view_impl->frame (decoration margins)
    tree,             \* surfaces enumerated by wf::for_each_wlr_surface(view)
    xdg_toplevel,     \* view->xdg_toplevel: live?, configure_serial,
                      \*   server_pending.tiled, window geometry
    lock_count,       \* per surface: lock() calls minus unlock() calls
    wlr_locks,        \* per surface: outstanding wlr_surface_lock_pending ids
    wlr_seq,          \* per surface: last lock id handed out
    display_serial,   \* serial counter of the protocol session
    configures,       \* configure requests scheduled for the client
    frames,           \* wf::surface_send_frame calls
    signals,          \* "final-size" / "ready" / "cancel" emitted, in order
    effects,          \* side effects of apply(), in order
    null_deref,       \* view->xdg_toplevel was dereferenced while null
    calls,            \* per surface: lock/unlock calls made by the instruction
    m_current, m_target,   \* serials given to the matcher on its own
    m_result               \* << >>, or <<the matcher's answer for them>>

instr_vars == <<kind, client_initiated, target, desired_edges, g, current_gravity>>
lock_vars == <<held_locks, held_soft_locks, lock_count, wlr_locks, wlr_seq, calls>>
view_vars == <<pending, state, geometry, refs, frame>>
out_vars == <<configures, frames, signals, effects>>
matcher_vars == <<m_current, m_target, m_result>>

vars == <<pc, instr_vars, lock_vars, on_commit, on_kill, view_vars, tree,
          xdg_toplevel, display_serial, out_vars, null_deref, matcher_vars>>

NoLocks == [s \in {} |-> 0]
Zero == [s \in Surfaces |-> 0]
Disconnected == [connected |-> FALSE, serial |-> 0]

Sig(name, size) == [name |-> name, size |-> size]
Count(seq, name) == Cardinality({i \in 1 .. Len(seq) : seq[i].name = name})

\* serials the session counter may stand at when the instruction is made
InitSerials == {MAX \div 2, MAX - 1, MAX}

\* the instructions the scheduler may make: class and constructor arguments
Payloads ==
    {[kind |-> "state", client_initiated |-> FALSE, target |-> InitialGeometry,
      desired_edges |-> e, g |-> "top_left"] : e \in TiledEdges}
    \cup
    {[kind |-> "geometry", client_initiated |-> ci, target |-> t,
      desired_edges |-> 0, g |-> "top_left"] : ci \in BOOLEAN, t \in Targets}
    \cup
    {[kind |-> "gravity", client_initiated |-> FALSE, target |-> InitialGeometry,
      desired_edges |-> 0, g |-> gr] : gr \in Gravities}
    \cup
    {[kind |-> k, client_initiated |-> FALSE, target |-> InitialGeometry,
      desired_edges |-> 0, g |-> "top_left"] : k \in {"map", "unmap"}}

\* whether the instruction may ask the client for an acknowledgment
NeedsSerial(p) == p.kind = "state" \/ (p.kind = "geometry" /\ ~p.client_initiated)

\* The view before the instruction is constructed.  What an instruction
\* class never reads is not varied for it.
Init ==
    /\ pc = "none"
    /\ \E p \in Payloads :
          /\ kind = p.kind
          /\ client_initiated = p.client_initiated
          /\ target = p.target
          /\ desired_edges = p.desired_edges
          /\ g = p.g
          /\ \E gr \in (IF p.kind = "geometry" THEN Gravities ELSE {"top_left"}) :
                pending = [geometry |-> InitialGeometry, tiled_edges |-> 0,
                           gravity |-> gr, mapped |-> (p.kind # "map")]
          /\ display_serial \in
                (IF NeedsSerial(p) THEN InitSerials ELSE {MAX \div 2})
          /\ \E live \in BOOLEAN,
                e \in (IF p.kind = "state" THEN TiledEdges ELSE {0}) :
                xdg_toplevel = [live |-> live, configure_serial |-> 0,
                                tiled |-> e, geometry |-> InitialGeometry]
    /\ state = pending
    /\ current_gravity = "top_left"
    /\ held_locks = NoLocks
    /\ held_soft_locks = [s \in Surfaces |-> FALSE]
    /\ on_commit = Disconnected
    /\ on_kill = FALSE
    /\ geometry = InitialGeometry
    /\ refs = 1
    /\ frame \in Frames
    /\ tree \in {t \in SUBSET Surfaces : MainSurface \in t}
    /\ lock_count = Zero
    /\ wlr_locks = [s \in Surfaces |-> {}]
    /\ wlr_seq = Zero
    /\ configures = << >>
    /\ frames = 0
    /\ signals = << >>
    /\ effects = << >>
    /\ null_deref = FALSE
    /\ calls = [lock |-> Zero, unlock |-> Zero, wlr_lock |-> Zero, wlr_unlock |-> Zero]
    /\ m_current = 0 /\ m_target = 0 /\ m_result = << >>

(***************************************************************************)
(* Surface Tree Lock Manager: lock_tree, unlock_tree, lock_tree_wlr and    *)
(* unlock_tree_wlr, each as the new value of every field it writes.        *)
(***************************************************************************)
Bump(c, S) == [s \in Surfaces |-> IF s \in S THEN c[s] + 1 ELSE c[s]]

\* a lock_tree() that locks the main surface only
lock_tree_counts_main_only(c, t) == Bump(c, {MainSurface})

\* lock_tree(): held_soft_locks[base] = true; base->lock();
lock_tree_flags(h, t) == [s \in Surfaces |-> IF s \in t THEN TRUE ELSE h[s]]
lock_tree_counts(c, t) == Bump(c, t)

\* an unlock_tree() without the held_soft_locks test
unlock_tree_whole_tree(h, t) == t

\* unlock_tree(): if (held_soft_locks[base]) { ... = false; base->unlock(); }
unlock_tree_set(h, t) == {s \in t : h[s]}
unlock_tree_flags(h, t) ==
    [s \in Surfaces |-> IF s \in unlock_tree_set(h, t) THEN FALSE ELSE h[s]]
unlock_tree_counts(c, h, t) ==
    [s \in Surfaces |-> IF s \in unlock_tree_set(h, t) THEN c[s] - 1 ELSE c[s]]

\* an unlock_tree_wlr() that forgets held_locks.clear()
unlock_tree_wlr_keeps(h) == h

\* lock_tree_wlr(): held_locks[surf] = wlr_surface_lock_pending(surf);
lock_tree_wlr_set(t) == t
lock_tree_wlr_held(h, seq, t) ==
    [s \in (DOMAIN h) \cup lock_tree_wlr_set(t) |->
        IF s \in lock_tree_wlr_set(t) THEN seq[s] + 1 ELSE h[s]]
lock_tree_wlr_locks(w, seq, t) ==
    [s \in Surfaces |->
        IF s \in lock_tree_wlr_set(t) THEN w[s] \cup {seq[s] + 1} ELSE w[s]]

\* unlock_tree_wlr(): wlr_surface_unlock_cached(surf, id) for each held lock,
\* then held_locks.clear()
unlock_tree_wlr_set(h) == DOMAIN h
unlock_tree_wlr_locks(w, h) ==
    [s \in Surfaces |->
        IF s \in unlock_tree_wlr_set(h) THEN w[s] \ {h[s]} ELSE w[s]]
unlock_tree_wlr_held(h) == NoLocks

(***************************************************************************)
(* emit_final_size_and_ready().  It reads view->xdg_toplevel->base without *)
(* a null check: with the toplevel gone the read is undefined behaviour,   *)
(* which either stops the process or yields an arbitrary box.              *)
(***************************************************************************)
final_box(box) ==
    IF frame.present THEN expand_with_margins(box, frame) ELSE box

\* the two signals in the wrong order
ready_then_final_size(box) ==
    <<Sig("ready", <<0, 0>>), Sig("final-size", dimensions(final_box(box)))>>

final_size_and_ready(box) ==
    <<Sig("final-size", dimensions(final_box(box))), Sig("ready", <<0, 0>>)>>

emit_final_size_and_ready(next_pc) ==
    IF xdg_toplevel.live
    THEN /\ signals' = signals \o final_size_and_ready(xdg_toplevel.geometry)
         /\ pc' = next_pc
         /\ UNCHANGED null_deref
    ELSE /\ null_deref' = TRUE
         /\ \/ /\ pc' = "crashed"
               /\ UNCHANGED signals
            \/ /\ \E box \in ClientBoxes :
                      signals' = signals \o final_size_and_ready(box)
               /\ pc' = next_pc

(***************************************************************************)
(* Construction: xdg_instruction_t::xdg_instruction_t and the constructors *)
(* of the variants.                                                        *)
(***************************************************************************)
\* an unref() that gives back a reference the instruction never took
unref_twice(r) == r - 2

\* view->take_ref() of the constructor and view->unref() of the destructor
take_ref(r) == r + 1
unref(r) == r - 1

\* the constructor of xdg_view_geometry_t grabs the soft locks at once for
\* a client-initiated resize
constructor_locks == kind = "geometry" /\ client_initiated

Construct ==
    /\ pc = "none"
    /\ IF constructor_locks
       THEN /\ held_soft_locks' = lock_tree_flags(held_soft_locks, tree)
            /\ lock_count' = lock_tree_counts(lock_count, tree)
            /\ calls' = [calls EXCEPT !.lock = Bump(@, tree)]
       ELSE UNCHANGED <<held_soft_locks, lock_count, calls>>
    /\ refs' = take_ref(refs)
    /\ on_kill' = TRUE
    /\ pc' = "created"
    /\ UNCHANGED <<instr_vars, held_locks, wlr_locks, wlr_seq, on_commit,
                   pending, state, geometry, frame, tree, xdg_toplevel,
                   display_serial, out_vars, null_deref, matcher_vars>>

\* the scheduler goes on with an instruction only while it was not cancelled
Cancelled == Count(signals, "cancel") > 0
Ready == Count(signals, "ready") > 0

(***************************************************************************)
(* set_pending() of the five variants.                                     *)
(***************************************************************************)
state_set_pending ==
    /\ pc = "created" /\ kind = "state" /\ ~Cancelled
    /\ pending' = [pending EXCEPT !.tiled_edges = desired_edges]
    /\ pc' = "staged"
    /\ UNCHANGED <<instr_vars, lock_vars, on_commit, on_kill, state, geometry,
                   refs, frame, tree, xdg_toplevel, display_serial, out_vars,
                   null_deref, matcher_vars>>

geometry_set_pending ==
    /\ pc = "created" /\ kind = "geometry" /\ ~Cancelled
    /\ current_gravity' = pending.gravity
    /\ pending' = [pending EXCEPT !.geometry = target]
    /\ pc' = "staged"
    /\ UNCHANGED <<kind, client_initiated, target, desired_edges, g, lock_vars,
                   on_commit, on_kill, state, geometry, refs, frame, tree,
                   xdg_toplevel, display_serial, out_vars, null_deref,
                   matcher_vars>>

\* a set_pending() that writes the gravity to the applied state as well
gravity_set_pending_and_state ==
    /\ pc = "created" /\ kind = "gravity" /\ ~Cancelled
    /\ pending' = [pending EXCEPT !.gravity = g]
    /\ state' = [state EXCEPT !.gravity = g]
    /\ pc' = "staged"
    /\ UNCHANGED <<instr_vars, lock_vars, on_commit, on_kill, geometry,
                   refs, frame, tree, xdg_toplevel, display_serial, out_vars,
                   null_deref, matcher_vars>>

gravity_set_pending ==
    /\ pc = "created" /\ kind = "gravity" /\ ~Cancelled
    /\ pending' = [pending EXCEPT !.gravity = g]
    /\ pc' = "staged"
    /\ UNCHANGED <<instr_vars, lock_vars, on_commit, on_kill, state, geometry,
                   refs, frame, tree, xdg_toplevel, display_serial, out_vars,
                   null_deref, matcher_vars>>

map_set_pending ==
    /\ pc = "created" /\ kind = "map" /\ ~Cancelled
    /\ pending' = [pending EXCEPT !.mapped = TRUE]
    /\ pc' = "staged"
    /\ UNCHANGED <<instr_vars, lock_vars, on_commit, on_kill, state, geometry,
                   refs, frame, tree, xdg_toplevel, display_serial, out_vars,
                   null_deref, matcher_vars>>

\* an unmap that leaves the hard locking to a later phase
unmap_set_pending_locks_nothing(t) == {}

\* the set of surfaces xdg_view_unmap_t::set_pending() hard-locks
unmap_set_pending_locks(t) == lock_tree_wlr_set(t)

unmap_set_pending ==
    /\ pc = "created" /\ kind = "unmap" /\ ~Cancelled
    /\ pending' = [pending EXCEPT !.mapped = FALSE]
    /\ held_locks' = lock_tree_wlr_held(held_locks, wlr_seq, unmap_set_pending_locks(tree))
    /\ wlr_locks' = lock_tree_wlr_locks(wlr_locks, wlr_seq, unmap_set_pending_locks(tree))
    /\ wlr_seq' = Bump(wlr_seq, unmap_set_pending_locks(tree))
    /\ calls' = [calls EXCEPT !.wlr_lock = Bump(@, unmap_set_pending_locks(tree))]
    /\ pc' = "staged"
    /\ UNCHANGED <<instr_vars, held_soft_locks, lock_count, on_commit, on_kill,
                   state, geometry, refs, frame, tree, xdg_toplevel,
                   display_serial, out_vars, null_deref, matcher_vars>>

(***************************************************************************)
(* commit() of the five variants.                                          *)
(***************************************************************************)
next_serial(n) == (n + 1) % (MAX + 1)

\* the soft locking every commit() but gravity's and unmap's starts with
commit_lock_tree ==
    /\ held_soft_locks' = lock_tree_flags(held_soft_locks, tree)
    /\ lock_count' = lock_tree_counts(lock_count, tree)
    /\ calls' = [calls EXCEPT !.lock = Bump(@, tree)]
    /\ UNCHANGED <<held_locks, wlr_locks, wlr_seq>>

\* on_commit.set_callback(...check_ready(serial)...); on_commit.connect(...)
arm_wait(serial) == [connected |-> TRUE, serial |-> serial]

\* a comparison with the view's applied state instead of the toplevel's
state_unchanged_by_view_state == state.tiled_edges = desired_edges

\* xdg_view_state_t::commit(): nothing to ask the client for
state_unchanged == xdg_toplevel.tiled = desired_edges

state_configures ==
    <<[request |-> "set_maximized", value |-> (desired_edges = TILED_EDGES_ALL)],
      [request |-> "set_tiled", value |-> desired_edges]>>

state_commit ==
    /\ pc = "staged" /\ kind = "state" /\ ~Cancelled
    /\ commit_lock_tree
    /\ IF ~xdg_toplevel.live \/ state_unchanged
       THEN /\ emit_final_size_and_ready("requested")
            /\ UNCHANGED <<xdg_toplevel, display_serial, configures, frames,
                           on_commit>>
       ELSE /\ xdg_toplevel' = [xdg_toplevel EXCEPT !.tiled = desired_edges]
            /\ configures' = configures \o state_configures
            /\ display_serial' = next_serial(display_serial)
            /\ frames' = frames + 1
            /\ on_commit' = arm_wait(next_serial(display_serial))
            /\ pc' = "requested"
            /\ UNCHANGED <<signals, null_deref>>
    /\ UNCHANGED <<instr_vars, on_kill, view_vars, tree, effects, matcher_vars>>

\* a configure of the full target size, margins not taken off
cfg_geometry_unshrunk == target

\* xdg_view_geometry_t::commit(): the size asked of the client
cfg_geometry ==
    IF frame.present THEN shrink_by_margins(target, frame) ELSE target

geometry_configures ==
    <<[request |-> "set_size",
       value |-> <<cfg_geometry.width, cfg_geometry.height>>]>>

geometry_commit ==
    /\ pc = "staged" /\ kind = "geometry" /\ ~Cancelled
    /\ commit_lock_tree
    /\ IF ~xdg_toplevel.live \/ client_initiated
       THEN /\ emit_final_size_and_ready("requested")
            /\ UNCHANGED <<display_serial, configures, frames, on_commit>>
       ELSE /\ configures' = configures \o geometry_configures
            /\ display_serial' = next_serial(display_serial)
            /\ frames' = frames + 1
            /\ on_commit' = arm_wait(next_serial(display_serial))
            /\ pc' = "requested"
            /\ UNCHANGED <<signals, null_deref>>
    /\ UNCHANGED <<instr_vars, on_kill, view_vars, tree, xdg_toplevel, effects,
                   matcher_vars>>

gravity_commit ==
    /\ pc = "staged" /\ kind = "gravity" /\ ~Cancelled
    /\ emit_final_size_and_ready("requested")
    /\ UNCHANGED <<instr_vars, lock_vars, on_commit, on_kill, view_vars, tree,
                   xdg_toplevel, display_serial, configures, frames, effects,
                   matcher_vars>>

map_commit ==
    /\ pc = "staged" /\ kind = "map" /\ ~Cancelled
    /\ commit_lock_tree
    /\ emit_final_size_and_ready("requested")
    /\ UNCHANGED <<instr_vars, on_commit, on_kill, view_vars, tree,
                   xdg_toplevel, display_serial, configures, frames, effects,
                   matcher_vars>>

\* xdg_view_unmap_t::commit(): the signals it emits
unmap_commit_signals == <<Sig("ready", <<0, 0>>)>>

unmap_commit ==
    /\ pc = "staged" /\ kind = "unmap" /\ ~Cancelled
    /\ signals' = signals \o unmap_commit_signals
    /\ pc' = "requested"
    /\ UNCHANGED <<instr_vars, lock_vars, on_commit, on_kill, view_vars, tree,
                   xdg_toplevel, display_serial, configures, frames, effects,
                   null_deref, matcher_vars>>

(***************************************************************************)
(* The client commits its surface, acknowledging some configure of the     *)
(* session and setting its window geometry.  If the commit listener is     *)
(* connected, check_ready(serial) runs.                                    *)
(***************************************************************************)
prev_serial(n) == (n + MAX) % (MAX + 1)

\* configure_serial after a commit nobody waits for: the client has
\* acknowledged the last configure sent
SentSerials == {display_serial}

\* configure_serial after a commit the instruction waits for: the configure
\* before the instruction's, the instruction's, or a later one of the session
AckSerials(serial) == {prev_serial(serial), serial, next_serial(serial)}

\* the instruction exists, apply() has not run and it was not cancelled
InFlight == pc \in {"created", "staged", "requested"} /\ ~Cancelled
Running == pc \in {"staged", "requested"} /\ ~Cancelled

client_commit ==
    /\ Running /\ xdg_toplevel.live /\ ~on_commit.connected
    /\ \E ack \in SentSerials, box \in ClientBoxes :
          xdg_toplevel' = [xdg_toplevel EXCEPT !.configure_serial = ack,
                                                !.geometry = box]
    /\ UNCHANGED <<pc, instr_vars, lock_vars, on_commit, on_kill, view_vars,
                   tree, display_serial, out_vars, null_deref,
                   matcher_vars>>

\* the surfaces check_ready() hard-locks once the target is achieved
check_ready_locks(t) == lock_tree_wlr_set(t)

\* a check_ready() that leaves the commit listener connected on a match
check_ready_stays_connected(l) == l

\* check_ready(): what becomes of the commit listener on a match
check_ready_disconnect(l) == [l EXCEPT !.connected = FALSE]

check_ready_achieved ==
    /\ Running /\ xdg_toplevel.live /\ on_commit.connected
    /\ \E ack \in AckSerials(on_commit.serial), box \in ClientBoxes :
          /\ target_achieved(ack, on_commit.serial)
          /\ xdg_toplevel' = [xdg_toplevel EXCEPT !.configure_serial = ack,
                                                   !.geometry = box]
          /\ signals' = signals \o final_size_and_ready(box)
    /\ on_commit' = check_ready_disconnect(on_commit)
    /\ held_locks' = lock_tree_wlr_held(held_locks, wlr_seq, check_ready_locks(tree))
    /\ wlr_locks' = lock_tree_wlr_locks(wlr_locks, wlr_seq, check_ready_locks(tree))
    /\ wlr_seq' = Bump(wlr_seq, check_ready_locks(tree))
    /\ calls' = [calls EXCEPT !.wlr_lock = Bump(@, check_ready_locks(tree))]
    /\ UNCHANGED <<pc, instr_vars, held_soft_locks, lock_count, on_kill,
                   view_vars, tree, display_serial, configures, frames,
                   effects, null_deref,  matcher_vars>>

\* a check_ready() that does not ask for a frame on a mismatch
check_ready_no_frame(f) == f

\* check_ready(): wf::surface_send_frame(view->get_wlr_surface()) on a mismatch
check_ready_frames(f) == f + 1

check_ready_not_achieved ==
    /\ Running /\ xdg_toplevel.live /\ on_commit.connected
    /\ frames < MaxFrames
    /\ \E ack \in AckSerials(on_commit.serial), box \in ClientBoxes :
          /\ ~target_achieved(ack, on_commit.serial)
          /\ xdg_toplevel' = [xdg_toplevel EXCEPT !.configure_serial = ack,
                                                   !.geometry = box]
    /\ frames' = check_ready_frames(frames)
    /\ UNCHANGED <<pc, instr_vars, lock_vars, on_commit, on_kill, view_vars,
                   tree, display_serial, configures, signals, effects,
                   null_deref,  matcher_vars>>

(***************************************************************************)
(* The view emits KILL_TX: on_kill runs.                                   *)
(***************************************************************************)
kill ==
    /\ InFlight /\ on_kill
    /\ on_commit' = [on_commit EXCEPT !.connected = FALSE]
    /\ signals' = Append(signals, Sig("cancel", <<0, 0>>))
    /\ UNCHANGED <<pc, instr_vars, lock_vars, on_kill, view_vars, tree,
                   xdg_toplevel, display_serial, configures, frames, effects,
                   null_deref,  matcher_vars>>

(***************************************************************************)
(* apply() of the five variants, called by the scheduler once the          *)
(* instruction is ready.                                                   *)
(***************************************************************************)
CanApply == pc = "requested" /\ Ready /\ ~Cancelled

apply_unlock_tree ==
    /\ held_soft_locks' = unlock_tree_flags(held_soft_locks, tree)
    /\ lock_count' = unlock_tree_counts(lock_count, held_soft_locks, tree)
    /\ calls' = [calls EXCEPT !.unlock = Bump(@, unlock_tree_set(held_soft_locks, tree))]
    /\ UNCHANGED <<held_locks, wlr_locks, wlr_seq>>

state_apply ==
    /\ CanApply /\ kind = "state"
    /\ apply_unlock_tree
    /\ state' = [state EXCEPT !.tiled_edges = desired_edges]
    /\ effects' = Append(effects, "update_tiled_edges")
    /\ pc' = "applied"
    /\ UNCHANGED <<instr_vars, on_commit, on_kill, pending, geometry, refs,
                   frame, tree, xdg_toplevel, display_serial, configures,
                   frames, signals, null_deref,  matcher_vars>>

\* view->get_size(): the size of the main surface, which extends past the
\* window geometry by the client's shadows
get_size(box) == <<box.width + 2 * box.x, box.height + 2 * box.y>>

\* xdg_view_geometry_t::apply(): the geometry written to the live state
applied_geometry(box) == align_with_gravity(target, final_box(box), current_gravity)

\* xdg_view_geometry_t::apply(): the geometry written to view->geometry
output_geometry(box) ==
    Box(applied_geometry(box).x - final_box(box).x,
        applied_geometry(box).y - final_box(box).y,
        get_size(box)[1], get_size(box)[2])

geometry_apply_with(box) ==
    /\ target' = output_geometry(box)
    /\ state' = [state EXCEPT !.geometry = applied_geometry(box)]
    /\ geometry' = output_geometry(box)
    /\ effects' = effects \o <<"damage", "damage">>
    /\ pc' = "applied"

geometry_apply ==
    /\ CanApply /\ kind = "geometry"
    /\ apply_unlock_tree
    /\ IF xdg_toplevel.live
       THEN /\ geometry_apply_with(xdg_toplevel.geometry)
            /\ UNCHANGED null_deref
       ELSE /\ null_deref' = TRUE
            /\ \/ /\ pc' = "crashed"
                  /\ effects' = Append(effects, "damage")
                  /\ UNCHANGED <<target, state, geometry>>
               \/ \E box \in ClientBoxes : geometry_apply_with(box)
    /\ UNCHANGED <<kind, client_initiated, desired_edges, g, current_gravity,
                   on_commit, on_kill, pending, refs, frame, tree,
                   xdg_toplevel, display_serial, configures, frames, signals,
                    matcher_vars>>

gravity_apply ==
    /\ CanApply /\ kind = "gravity"
    /\ state' = [state EXCEPT !.gravity = g]
    /\ pc' = "applied"
    /\ UNCHANGED <<instr_vars, lock_vars, on_commit, on_kill, pending,
                   geometry, refs, frame, tree, xdg_toplevel, display_serial,
                   out_vars, null_deref, matcher_vars>>

map_apply ==
    /\ CanApply /\ kind = "map"
    /\ state' = [state EXCEPT !.mapped = TRUE]
    /\ apply_unlock_tree
    /\ effects' = Append(effects, "map")
    /\ pc' = "applied"
    /\ UNCHANGED <<instr_vars, on_commit, on_kill, pending, geometry, refs,
                   frame, tree, xdg_toplevel, display_serial, configures,
                   frames, signals, null_deref,  matcher_vars>>

\* the wlr locks a call of unlock_tree_wlr() passes to
\* wlr_surface_unlock_cached
released_locks(h) == unlock_tree_wlr_set(h)

unmap_apply ==
    /\ CanApply /\ kind = "unmap"
    /\ state' = [state EXCEPT !.mapped = FALSE]
    /\ wlr_locks' = unlock_tree_wlr_locks(wlr_locks, held_locks)
    /\ calls' = [calls EXCEPT !.wlr_unlock = Bump(@, released_locks(held_locks))]
    /\ held_locks' = unlock_tree_wlr_held(held_locks)
    /\ effects' = Append(effects, "unmap")
    /\ pc' = "applied"
    /\ UNCHANGED <<instr_vars, held_soft_locks, lock_count, wlr_seq, on_commit,
                   on_kill, pending, geometry, refs, frame, tree, xdg_toplevel,
                   display_serial, configures, frames, signals, null_deref,
                    matcher_vars>>

(***************************************************************************)
(* ~xdg_instruction_t(): the scheduler destroys the instruction after      *)
(* apply() or after it was cancelled.                                      *)
(***************************************************************************)
\* The destructor calls unlock_tree_wlr() and view->unref(); it does not call
\* unlock_tree().  The two connections are members and go with the object.
destroy ==
    /\ \/ pc = "applied"
       \/ pc \in {"created", "staged", "requested"} /\ Cancelled
    /\ wlr_locks' = unlock_tree_wlr_locks(wlr_locks, held_locks)
    /\ held_locks' = unlock_tree_wlr_held(held_locks)
    /\ calls' = [calls EXCEPT !.wlr_unlock = Bump(@, released_locks(held_locks))]
    /\ refs' = unref(refs)
    /\ on_kill' = FALSE
    /\ on_commit' = [on_commit EXCEPT !.connected = FALSE]
    /\ pc' = "destroyed"
    /\ UNCHANGED <<instr_vars, held_soft_locks, lock_count, wlr_seq, pending,
                   state, geometry, frame, tree, xdg_toplevel, display_serial,
                   out_vars, null_deref, matcher_vars>>

(***************************************************************************)
(* The environment: sub-surfaces join and leave the view's surface tree,   *)
(* and the protocol object of the view goes away.                          *)
(***************************************************************************)
surface_added ==
    /\ InFlight
    /\ \E s \in Surfaces \ tree : tree' = tree \cup {s}
    /\ UNCHANGED <<pc, instr_vars, lock_vars, on_commit, on_kill, view_vars,
                   xdg_toplevel, display_serial, out_vars, null_deref,
                   matcher_vars>>

surface_removed ==
    /\ InFlight
    /\ \E s \in tree \ {MainSurface} : tree' = tree \ {s}
    /\ UNCHANGED <<pc, instr_vars, lock_vars, on_commit, on_kill, view_vars,
                   xdg_toplevel, display_serial, out_vars, null_deref,
                   matcher_vars>>

toplevel_destroyed ==
    /\ Running /\ xdg_toplevel.live
    /\ xdg_toplevel' = [xdg_toplevel EXCEPT !.live = FALSE]
    /\ UNCHANGED <<pc, instr_vars, lock_vars, on_commit, on_kill, view_vars,
                   tree, display_serial, out_vars, null_deref,
                   matcher_vars>>

Next ==
    \/ Construct
    \/ state_set_pending \/ geometry_set_pending \/ gravity_set_pending
    \/ map_set_pending \/ unmap_set_pending
    \/ state_commit \/ geometry_commit \/ gravity_commit
    \/ map_commit \/ unmap_commit
    \/ client_commit \/ check_ready_achieved \/ check_ready_not_achieved
    \/ kill
    \/ state_apply \/ geometry_apply \/ gravity_apply
    \/ map_apply \/ unmap_apply
    \/ destroy
    \/ surface_added \/ surface_removed \/ toplevel_destroyed

Spec == Init /\ [][Next]_vars

(***************************************************************************)
(* The matcher on its own: every pair of serials is given to it once.      *)
(***************************************************************************)
MatcherInit ==
    /\ Init
    /\ kind = "gravity" /\ g = "top_left" /\ frame = NoFrame
    /\ tree = {MainSurface} /\ xdg_toplevel.live

matcher_inputs ==
    /\ pc = "none" /\ m_result = << >>
    /\ m_current' \in Serials
    /\ m_target' \in Serials
    /\ m_result' = <<target_achieved(m_current', m_target')>>
    /\ UNCHANGED <<pc, instr_vars, lock_vars, on_commit, on_kill, view_vars,
                   tree, xdg_toplevel, display_serial, out_vars, null_deref>>

MatcherNext == matcher_inputs

MatcherSpec == MatcherInit /\ [][MatcherNext]_vars

(***************************************************************************)
(* The acknowledgment wait on its own: a tiling or resize instruction of   *)
(* a view whose toplevel is alive at construction.  The client keeps       *)
(* committing until a commit acknowledges a matching serial, and a view    *)
(* whose toplevel is gone emits KILL_TX.                                   *)
(***************************************************************************)
WaitInit ==
    /\ Init
    /\ kind = "state" \/ (kind = "geometry" /\ ~client_initiated)
    /\ xdg_toplevel.live

WaitNext ==
    \/ Construct
    \/ state_set_pending \/ geometry_set_pending
    \/ state_commit \/ geometry_commit
    \/ client_commit \/ check_ready_achieved \/ check_ready_not_achieved
    \/ kill
    \/ state_apply \/ geometry_apply
    \/ destroy
    \/ surface_added \/ surface_removed \/ toplevel_destroyed

WaitFairness ==
    /\ WF_vars(check_ready_achieved)
    /\ WF_vars(kill /\ ~xdg_toplevel.live)

WaitSpec == WaitInit /\ [][WaitNext]_vars /\ WaitFairness

(***************************************************************************)
(* Properties.                                                             *)
(***************************************************************************)
NoSoftLocks == \A s \in Surfaces : lock_count[s] = 0
NoHardLocks == \A s \in Surfaces : wlr_locks[s] = {}

\* steps, recognised by what they change
EmitsReady == Count(signals', "ready") = Count(signals, "ready") + 1
EmitsCancel == Count(signals', "cancel") = Count(signals, "cancel") + 1
CommitStep == pc = "staged" /\ pc' \in {"requested", "crashed"}

\* C1: once the instruction has been destroyed, every surface's soft lock
\* counter and set of outstanding hard locks is back to what it was before
\* the instruction was constructed (nothing locked).
C1_NoLockOutlivesInstruction ==
    pc = "destroyed" => NoSoftLocks /\ NoHardLocks

\* C2: a resize that sent its configure and is cancelled before any
\* acknowledgment matched has emitted cancel exactly once and ready never,
\* and holds no hard or soft lock.
C2_CancelledResizeHoldsNothing ==
    (/\ kind = "geometry" /\ ~client_initiated
     /\ configures # << >>
     /\ signals # << >> /\ signals[1].name = "cancel")
    => /\ signals = <<Sig("cancel", <<0, 0>>)>>
       /\ held_locks = NoLocks
       /\ \A s \in Surfaces : ~held_soft_locks[s]
       /\ NoSoftLocks /\ NoHardLocks

\* C3: the matcher answers true exactly when current # 0 and either
\* current >= target with current - target < MAX/2, or target > current with
\* target - current > MAX/2; so it is false for current = 0, true for
\* target = current # 0, true for current = target + 1, true for current = 5
\* and target = MAX - 3, and false for current = target - 1.
C3_MatcherRule ==
    m_result # << >> =>
        /\ m_result[1] =
              (/\ m_current # 0
               /\ \/ (m_current >= m_target /\ m_current - m_target < MAX \div 2)
                  \/ (m_target > m_current /\ m_target - m_current > MAX \div 2))
        /\ (m_current = 0 => ~m_result[1])
        /\ (m_current = m_target /\ m_current # 0 => m_result[1])
        /\ (m_current = m_target + 1 => m_result[1])
        /\ (m_current = 5 /\ m_target = MAX - 3 => m_result[1])
        /\ (m_current = m_target - 1 => ~m_result[1])

C3_WrappedSerialMatched ==
    m_result = <<TRUE>> /\ m_current = 5 /\ m_target = MAX - 3

\* C4: a commit() that finds the protocol object gone emits ready in the same
\* step, sends no configure and no frame request, arms no acknowledgment
\* wait and never reads the absent protocol object.
C4_RequestWithoutToplevel ==
    [][(CommitStep /\ ~xdg_toplevel.live)
        => /\ pc' = "requested"
           /\ EmitsReady
           /\ ~EmitsCancel
           /\ configures' = configures
           /\ frames' = frames
           /\ ~on_commit'.connected
           /\ ~null_deref']_vars

\* C5: cancel is never emitted for an instruction that has emitted ready:
\* an instruction emits at most one of ready and cancel.
C5_AtMostOneOfReadyAndCancel ==
    ~(Ready /\ Cancelled)

C7_UnmapLocksInSetPending ==
    /\ [][(kind = "unmap" /\ pc = "created" /\ pc' = "staged")
            => \A s \in tree :
                  /\ s \in DOMAIN held_locks'
                  /\ held_locks'[s] \in wlr_locks'[s] \ wlr_locks[s]]_vars
    /\ [][(kind = "unmap" /\ pc \in {"staged", "requested"}
                          /\ pc' \in {"staged", "requested"})
            => /\ held_locks' = held_locks
               /\ wlr_locks' = wlr_locks
               /\ lock_count' = lock_count
               /\ calls' = calls]_vars
    /\ [](kind = "unmap" /\ pc \in {"staged", "requested"}
            => /\ MainSurface \in DOMAIN held_locks
               /\ \A s \in DOMAIN held_locks : held_locks[s] \in wlr_locks[s])

C7_DestroyedBeforeCommit ==
    /\ kind = "unmap" /\ pc = "staged" /\ Cancelled /\ ~xdg_toplevel.live
    /\ \A s \in tree : s \in DOMAIN held_locks /\ held_locks[s] \in wlr_locks[s]

\* C8: a resize asks the client for the target size less the decoration
\* margins (400x270 for a target of 400x300 under a 30 high title bar); when
\* the client acknowledges with exactly that size the final-size published
\* is the target size again; apply() writes as live geometry the target
\* aligned by the staged gravity against the client's geometry expanded by
\* the margins.
C8_ResizeWithMargins ==
    /\ [][(CommitStep /\ kind = "geometry" /\ ~client_initiated
                      /\ xdg_toplevel.live)
            => /\ configures' =
                    <<[request |-> "set_size",
                       value |-> <<target.width - frame.left - frame.right,
                                   target.height - frame.top - frame.bottom>>]>>
               /\ (target = Box(100, 100, 400, 300) /\ frame = TitleBar
                     => configures'[1].value = <<400, 270>>)]_vars
    /\ [][(EmitsReady /\ kind = "geometry" /\ configures # << >>
             /\ <<xdg_toplevel'.geometry.width, xdg_toplevel'.geometry.height>>
                   = configures[1].value)
            => signals'[Len(signals') - 1] =
                  Sig("final-size", <<target.width, target.height>>)]_vars
    /\ [][(kind = "geometry" /\ pc = "requested" /\ pc' = "applied"
             /\ xdg_toplevel.live)
            => LET w == xdg_toplevel.geometry.width + frame.left + frame.right
                   h == xdg_toplevel.geometry.height + frame.top + frame.bottom
                   right == current_gravity = "bottom_right"
               IN  state'.geometry =
                      Box(IF right THEN target.x + target.width - w ELSE target.x,
                          IF right THEN target.y + target.height - h ELSE target.y,
                          w, h)]_vars

C8_ResizedUnderTitleBar ==
    /\ kind = "geometry" /\ pc = "applied" /\ frame = TitleBar
    /\ configures = <<[request |-> "set_size", value |-> <<400, 270>>]>>
    /\ signals = <<Sig("final-size", <<400, 300>>), Sig("ready", <<0, 0>>)>>
    /\ state.geometry = Box(100, 100, 400, 300)

\* C9: a tiling instruction asking for the tiled edges the toplevel already
\* has sends no configure and no frame request, arms no wait and emits ready
\* within commit(); one asking for other edges of a live toplevel sends the
\* maximized and tiled configures, arms the wait, and emits ready only on a
\* commit whose acknowledged serial matches.
C9_TilingNoOp ==
    /\ [][(CommitStep /\ kind = "state" /\ xdg_toplevel.live
                      /\ xdg_toplevel.tiled = desired_edges)
            => /\ configures' = configures
               /\ frames' = frames
               /\ ~on_commit'.connected
               /\ EmitsReady]_vars
    /\ [][(CommitStep /\ kind = "state" /\ xdg_toplevel.live
                      /\ xdg_toplevel.tiled # desired_edges)
            => /\ Len(configures') = Len(configures) + 2
               /\ configures'[Len(configures')] =
                     [request |-> "set_tiled", value |-> desired_edges]
               /\ on_commit'.connected
               /\ signals' = signals]_vars
    /\ [][(EmitsReady /\ kind = "state" /\ configures # << >>)
            => /\ on_commit.connected
               /\ target_achieved(xdg_toplevel'.configure_serial, on_commit.serial)]_vars
    /\ [](kind = "state" /\ on_commit.connected => ~Ready)

C9_SameEdgesReadyAtOnce ==
    /\ kind = "state" /\ pc = "requested" /\ xdg_toplevel.live
    /\ desired_edges = TILED_EDGES_ALL /\ xdg_toplevel.tiled = desired_edges
    /\ configures = << >> /\ frames = 0 /\ Ready

\* C10: releasing is idempotent.  A second unlock_tree() right after a first
\* unlocks no surface and changes neither the flags nor the counters; the
\* destructor's unlock_tree_wlr() after unmap's apply() releases nothing and
\* changes no record; every wlr lock acquired is released exactly once by
\* the time the instruction is destroyed, and never more than once.
C10_ReleaseIdempotent ==
    /\ [](LET flags == unlock_tree_flags(held_soft_locks, tree)
              counts == unlock_tree_counts(lock_count, held_soft_locks, tree)
          IN  /\ unlock_tree_set(flags, tree) = {}
              /\ unlock_tree_flags(flags, tree) = flags
              /\ unlock_tree_counts(counts, flags, tree) = counts)
    /\ [][(kind = "unmap" /\ pc = "applied" /\ pc' = "destroyed")
            => /\ wlr_locks' = wlr_locks
               /\ held_locks' = held_locks
               /\ calls' = calls]_vars
    /\ [](\A s \in Surfaces : calls.wlr_unlock[s] <= calls.wlr_lock[s])
    /\ [](pc = "destroyed" => calls.wlr_unlock = calls.wlr_lock /\ NoHardLocks)

C10_UnmapDestroyedAfterApply ==
    /\ kind = "unmap" /\ pc = "destroyed" /\ effects = <<"unmap">>
    /\ calls.wlr_lock[MainSurface] = 1 /\ calls.wlr_unlock[MainSurface] = 1

\* C11: lock_tree() is idempotent per surface: however often the instruction
\* calls it, each surface's lock() is invoked at most once, so that the one
\* unlock_tree() of apply() leaves the surfaces of the tree unlocked.
C11_SoftLockedOncePerSurface ==
    /\ \A s \in Surfaces : calls.lock[s] <= 1
    /\ pc = "applied" => \A s \in tree : lock_count[s] = 0

\* a client commit seen by the armed commit listener, i.e. a run of
\* check_ready(on_commit.serial)
ObservedCommit ==
    /\ on_commit.connected /\ xdg_toplevel.live /\ xdg_toplevel'.live
    /\ pc' = pc /\ tree' = tree /\ ~EmitsCancel
    /\ (xdg_toplevel' # xdg_toplevel \/ frames' # frames \/ signals' # signals)

Matches == target_achieved(xdg_toplevel'.configure_serial, on_commit.serial)

\* C12: the first observed commit whose acknowledged serial matches detaches
\* the commit listener, takes a new wlr lock on every surface of the tree
\* and emits ready; a resize or tiling instruction takes at most one wlr
\* lock per surface and emits ready at most once, and after ready no step
\* locks or emits ready again.
C12_HardLockAndReadyOnce ==
    /\ [][(ObservedCommit /\ kind \in {"state", "geometry"} /\ Matches)
            => /\ ~on_commit'.connected
               /\ \A s \in tree :
                     /\ s \in DOMAIN held_locks'
                     /\ held_locks'[s] \in wlr_locks'[s] \ wlr_locks[s]
               /\ calls'.wlr_lock = Bump(calls.wlr_lock, tree)
               /\ EmitsReady]_vars
    /\ [][(kind \in {"state", "geometry"} /\ Ready)
            => /\ calls'.wlr_lock = calls.wlr_lock
               /\ Count(signals', "ready") = Count(signals, "ready")]_vars
    /\ [](kind \in {"state", "geometry"}
            => /\ Count(signals, "ready") <= 1
               /\ \A s \in Surfaces : calls.wlr_lock[s] <= 1)

C12_ReadyAfterMismatch ==
    /\ kind = "geometry" /\ pc = "requested" /\ configures # << >>
    /\ Count(signals, "ready") = 1 /\ frames > 1
    /\ ~on_commit.connected
    /\ tree = Surfaces /\ DOMAIN held_locks = Surfaces

AtOrJustPast(current, t) == (current - t) % (MAX + 1) < MAX \div 2

\* C14 as stated: every observed commit whose acknowledged serial is at or
\* just past the target ends the wait with ready.
C14_WaitEndsAtTarget ==
    [][(ObservedCommit
          /\ AtOrJustPast(xdg_toplevel'.configure_serial, on_commit.serial))
        => EmitsReady]_vars

\* C14: every observed commit whose acknowledged serial is nonzero and at or
\* just past the target ends the wait with ready, the kill signal ends it
\* with cancel, and an armed wait whose client keeps committing, or whose
\* view is killed once its toplevel is gone, leads to ready or cancel.
C14_WaitEndsAtNonzeroTarget ==
    /\ [][(ObservedCommit
             /\ xdg_toplevel'.configure_serial # 0
             /\ AtOrJustPast(xdg_toplevel'.configure_serial, on_commit.serial))
           => (EmitsReady /\ ~on_commit'.connected)]_vars
    /\ [][(on_commit.connected /\ ~on_commit'.connected)
           => (EmitsReady \/ EmitsCancel)]_vars
    /\ (on_commit.connected ~> (Ready \/ Cancelled))

C14_ReadyPastWrappedTarget ==
    /\ pc = "requested" /\ Ready /\ ~on_commit.connected
    /\ on_commit.serial = 0 /\ xdg_toplevel.configure_serial = 1
    /\ frames > 1

\* the field of the pending and of the applied state an instruction is about
OwnField ==
    CASE kind = "state" -> "tiled_edges"
      [] kind = "geometry" -> "geometry"
      [] kind = "gravity" -> "gravity"
      [] OTHER -> "mapped"

OnlyOwnField(old, new) ==
    \A f \in DOMAIN old : f # OwnField => new[f] = old[f]

\* C15: set_pending() (created to staged) changes only the pending field of
\* its own payload and no applied state; apply() (requested to applied)
\* changes no pending field and, of the applied state, only the field of its
\* own payload; every other step (construction, commit(), client commits,
\* kill, destruction) changes neither the pending nor the applied state.
C15_PendingByStageStateByApply ==
    [][/\ (pc = "created" /\ pc' = "staged")
            => (OnlyOwnField(pending, pending') /\ state' = state
                  /\ geometry' = geometry)
       /\ (pc = "requested" /\ pc' = "applied")
            => (pending' = pending /\ OnlyOwnField(state, state'))
       /\ ~(pc = "created" /\ pc' = "staged")
            /\ ~(pc = "requested" /\ pc' = "applied")
            => (pending' = pending /\ state' = state
                  /\ geometry' = geometry)]_vars

C15_GravityStagedThenApplied ==
    /\ kind = "gravity" /\ g = "bottom_right" /\ pc = "applied"
    /\ pending.gravity = g /\ state.gravity = g

\* C16: commit() of a gravity, map or unmap instruction emits ready in the
\* same step, sends no configure and no frame request and arms no
\* acknowledgment wait; a gravity instruction never takes a soft or a wlr
\* lock, and its apply() changes only the applied gravity.
C16_ReadyWithoutRoundTrip ==
    /\ [][(CommitStep /\ kind \in {"gravity", "map", "unmap"})
            => /\ pc' = "requested"
               /\ EmitsReady
               /\ configures' = configures
               /\ frames' = frames
               /\ ~on_commit'.connected]_vars
    /\ [][kind = "gravity"
            => /\ calls' = calls
               /\ UNCHANGED lock_vars
               /\ (pc = "requested" /\ pc' = "applied"
                     => /\ state' = [state EXCEPT !.gravity = g]
                        /\ pending' = pending /\ geometry' = geometry)]_vars

\* C17: the view's reference count is one above its value before
\* construction from the constructor until the destructor, and back at that
\* value before construction and after destruction; it changes only in those
\* two steps, whichever way the instruction ends.
C17_OneReferenceHeld ==
    /\ [](refs = IF pc \in {"none", "destroyed"} THEN 1 ELSE 2)
    /\ [][refs' # refs
            => \/ pc = "none" /\ pc' = "created" /\ refs' = refs + 1
               \/ pc # "destroyed" /\ pc' = "destroyed" /\ refs' = refs - 1]_vars

C17_ReleasedAfterCancel ==
    pc = "destroyed" /\ Cancelled /\ ~Ready /\ refs = 1

Covered == {"state", "geometry", "map"}

\* C18: for tiling, resize and map instructions, commit() leaves every
\* surface of the tree marked in held_soft_locks and soft-locked at least
\* once; while the instruction stays requested no step clears a mark or
\* lowers a surface's lock counter, so every marked surface is locked in
\* every state between commit() and apply().
C18_LockedFromCommitToApply ==
    /\ [][(kind \in Covered /\ pc = "staged" /\ pc' = "requested")
            => \A s \in tree : held_soft_locks'[s] /\ lock_count'[s] >= 1]_vars
    /\ [][(kind \in Covered /\ pc = "requested" /\ pc' = "requested")
            => \A s \in Surfaces :
                  /\ held_soft_locks[s] => held_soft_locks'[s]
                  /\ lock_count'[s] >= lock_count[s]]_vars
    /\ []((kind \in Covered /\ pc = "requested")
            => \A s \in Surfaces : held_soft_locks[s] => lock_count[s] >= 1)

C18_MapReadyAndLocked ==
    /\ kind = "map" /\ pc = "requested" /\ Ready
    /\ tree # Surfaces
    /\ \A s \in Surfaces : held_soft_locks[s] /\ lock_count[s] = 1

distance(c, t) == (c - t) % (MAX + 1)

\* C20 as stated: for current # 0 the result does not change when current
\* and target are shifted by the same constant modulo 2^w (the shifted
\* current being nonzero), it is true for a distance below MAX / 2 and false
\* when current is behind target.
C20_ShiftInvariant ==
    (m_result # << >> /\ m_current # 0) =>
        /\ \A k \in Serials :
              (m_current + k) % (MAX + 1) # 0
                => target_achieved((m_current + k) % (MAX + 1),
                                   (m_target + k) % (MAX + 1)) = m_result[1]
        /\ distance(m_current, m_target) < MAX \div 2 => m_result[1]
        /\ distance(m_current, m_target) > MAX \div 2 + 1 => ~m_result[1]

\* C20: for current # 0 the matcher is true at every distance below MAX / 2
\* and false at every distance above MAX / 2 + 1; at the distances MAX / 2
\* and MAX / 2 + 1 it is true exactly when target > current; for every other
\* distance the result survives any shift that keeps current nonzero.
C20_ShiftInvariantOffBoundary ==
    (m_result # << >> /\ m_current # 0) =>
        /\ distance(m_current, m_target) < MAX \div 2 => m_result[1]
        /\ distance(m_current, m_target) > MAX \div 2 + 1 => ~m_result[1]
        /\ distance(m_current, m_target) \in {MAX \div 2, MAX \div 2 + 1}
             => m_result[1] = (m_target > m_current)
        /\ distance(m_current, m_target) \notin {MAX \div 2, MAX \div 2 + 1}
             => \A k \in Serials :
                   (m_current + k) % (MAX + 1) # 0
                     => target_achieved((m_current + k) % (MAX + 1),
                                        (m_target + k) % (MAX + 1)) = m_result[1]

C20_MatchedAtHalfRange ==
    /\ m_result = <<TRUE>> /\ m_current # 0
    /\ m_target - m_current = MAX - MAX \div 2

====
